---- MODULE Spec2Model ----
(***************************************************************************)
(* Model of the `requirements` app: the Term table (models.py), Term.save  *)
(* and TermForm (forms.py) as the form framework drives it: field          *)
(* cleaning, TermForm.clean, instance construction, uniqueness validation  *)
(* and ModelForm.save.                                                     *)
(*                                                                         *)
(* Python values are tagged records, so that None, '', a missing key and a *)
(* filled string stay distinct.  Strings are sequences of one-character    *)
(* strings; str.upper and str.strip are computed character by character.   *)
(* The fields description, units, max_value, min_value, initial_value and  *)
(* enumerators take part in no rule of clean() or save() and are left      *)
(* empty in every input.                                                   *)
(***************************************************************************)
EXTENDS Integers, Sequences, FiniteSets, TLC

VARIABLES terms, form

vars == <<terms, form>>

(* ------------------------------ bounds -------------------------------- *)

\* Longest condition string handed to Term.objects.create / Term.save.
MaxLen == 1

(* --------------------------- Python values ---------------------------- *)

PyNone == [t |-> "none"]

PyStr(s) == [t |-> "str", s |-> s]

PyInt(n) == [t |-> "int", n |-> n]

PyUser(u) == [t |-> "user", u |-> u]

\* A key that the submitted data does not hold.
Absent == [t |-> "absent"]

\* bool(v) as Python evaluates `if v:` / `not v`.
Truthy(v) ==
  CASE v.t = "none" -> FALSE
    [] v.t = "str"  -> v.s # <<>>
    [] v.t = "int"  -> v.n # 0
    [] OTHER        -> TRUE

\* None, the empty string, or a filled string.
Kind(v) == IF v.t = "none" THEN "none" ELSE IF v.s = <<>> THEN "empty" ELSE "filled"

(* ------------------------------ strings ------------------------------- *)

\* str.upper() of one character; "ß" has no single upper-case character.
UpperChar(c) ==
  CASE c = "a" -> <<"A">>
    [] c = "ß" -> <<"S", "S">>
    [] OTHER   -> <<c>>

RECURSIVE Upper(_)
Upper(s) == IF s = <<>> THEN <<>> ELSE UpperChar(Head(s)) \o Upper(Tail(s))

RECURSIVE LStrip(_)
LStrip(s) == IF s # <<>> /\ Head(s) = " " THEN LStrip(Tail(s)) ELSE s

RECURSIVE RStrip(_)
RStrip(s) ==
  IF s # <<>> /\ s[Len(s)] = " " THEN RStrip(SubSeq(s, 1, Len(s) - 1)) ELSE s

\* str.strip()
Strip(s) == RStrip(LStrip(s))

RECURSIVE StrsUpTo(_, _)
StrsUpTo(alphabet, n) ==
  IF n = 0 THEN {<<>>}
  ELSE LET shorter == StrsUpTo(alphabet, n - 1)
       IN  shorter \cup {<<c>> \o s : c \in alphabet, s \in {x \in shorter : Len(x) = n - 1}}

(* ------------------------- models.py: Term ---------------------------- *)

\* Term.NONE ... Term.VARIABLE: the choice values of d_type and t_type.

Term_NONE == 0

Term_BOOLEAN == 1

Term_ENUM == 2

Term_FLOAT == 3

Term_INTEGER == 4

Term_STRING == 5

D_TYPE_CHOICES == {Term_NONE, Term_BOOLEAN, Term_ENUM, Term_FLOAT, Term_INTEGER, Term_STRING}

Term_CONSTANT == 0

Term_DEFINITION == 1

Term_INPUT == 2

Term_OUTPUT == 3

Term_VARIABLE == 4

T_TYPE_CHOICES == {Term_CONSTANT, Term_DEFINITION, Term_INPUT, Term_OUTPUT, Term_VARIABLE}

\* max_length of name, value, boolean_false_cond and boolean_true_cond.
max_length == 140

\* Term(): the field defaults of an instance that no keyword sets.  id 0 is
\* an instance without a primary key.  The last four fields are history, not
\* columns: which path wrote the row last ("model" or "form"), the acting
\* user of that form, and what each condition was when save() was entered.
NewTerm ==
  [id |-> 0, name |-> PyStr(<<>>), d_type |-> PyInt(Term_NONE), t_type |-> PyInt(Term_DEFINITION),
   value |-> PyNone, boolean_false_cond |-> PyNone, boolean_true_cond |-> PyNone,
   added_user |-> PyNone, modified_user |-> PyNone,
   via |-> "none", by |-> PyNone, raw_false |-> "none", raw_true |-> "none"]

\* Term.save as it would be if only boolean_false_cond were upper-cased.
Term_save_OnlyFalse(self) ==
  [self EXCEPT
     !.boolean_false_cond =
        IF Truthy(@) THEN PyStr(Upper(@.s)) ELSE @]

\* Term.save, lines 142-146: upper-case each condition that is filled.
Term_save(self) ==
  [self EXCEPT
     !.boolean_false_cond =
        IF Truthy(@) THEN PyStr(Upper(@.s)) ELSE @,
     !.boolean_true_cond =
        IF Truthy(@) THEN PyStr(Upper(@.s)) ELSE @]

\* The two foreign keys of CoreModel are NOT NULL columns.
NotNullOk(row) == row.added_user # PyNone /\ row.modified_user # PyNone

\* name is a unique column.
UniqueOk(rows, row) ==
  \A i \in 1..Len(rows) : rows[i].id # row.id => rows[i].name # row.name

\* super().save(): INSERT for an instance without primary key, UPDATE
\* otherwise.  A violated constraint raises IntegrityError and writes nothing.
DbSave(rows, row) ==
  IF ~(NotNullOk(row) /\ UniqueOk(rows, row)) THEN rows
  ELSE IF row.id = 0 THEN Append(rows, [row EXCEPT !.id = Len(rows) + 1])
  ELSE [rows EXCEPT ![row.id] = row]

\* instance.save(): Term.save then the superclass save.
SaveInstance(rows, self, via, by) ==
  DbSave(rows, [Term_save(self) EXCEPT
                  !.via = via, !.by = by,
                  !.raw_false = Kind(self.boolean_false_cond),
                  !.raw_true = Kind(self.boolean_true_cond)])

\* Term(**kw): the keywords over the defaults.
TermInit(kw) ==
  [NewTerm EXCEPT
     !.name = kw.name, !.d_type = kw.d_type, !.t_type = kw.t_type, !.value = kw.value,
     !.boolean_false_cond = kw.boolean_false_cond,
     !.boolean_true_cond = kw.boolean_true_cond,
     !.added_user = kw.user, !.modified_user = kw.user]

\* Assignment of the attributes of kw to a loaded instance.
TermAssign(self, kw) ==
  [self EXCEPT
     !.d_type = kw.d_type, !.t_type = kw.t_type, !.value = kw.value,
     !.boolean_false_cond = kw.boolean_false_cond,
     !.boolean_true_cond = kw.boolean_true_cond]

(* ------------------------ forms.py: TermForm -------------------------- *)

MsgFilled == "This field should be filled."

MsgRequired == "This field is required."

MsgMaxLength == "Ensure this value has at most 140 characters."

MsgInvalidChoice == "Select a valid choice."

MsgUnique == "Term with this Name already exists."

\* Meta.fields, without the fields that are left empty in every input.
FormFields ==
  {"name", "d_type", "t_type", "value", "boolean_false_cond", "boolean_true_cond"}

Cleaned(v) == [ok |-> TRUE, val |-> v, err |-> ""]

Invalid(msg) == [ok |-> FALSE, val |-> PyNone, err |-> msg]

\* The form field of a CharField(max_length=140): strip, map '' and None to
\* the empty value, then check required and the length.
CleanCharField(raw, required, empty_value) ==
  LET text == IF raw.t = "str" THEN Strip(raw.s) ELSE <<>>
  IN  IF text = <<>>
        THEN IF required THEN Invalid(MsgRequired) ELSE Cleaned(empty_value)
      ELSE IF Len(text) > max_length THEN Invalid(MsgMaxLength)
      ELSE Cleaned(PyStr(text))

\* The form field of an IntegerField with choices and a default: a required
\* typed choice without blank option.
CleanChoiceField(raw, choices) ==
  IF raw.t = "int"
    THEN IF raw.n \in choices THEN Cleaned(PyInt(raw.n)) ELSE Invalid(MsgInvalidChoice)
  ELSE IF raw.t = "str" /\ raw.s # <<>> THEN Invalid(MsgInvalidChoice)
  ELSE Invalid(MsgRequired)

\* data.get(key), then the clean() of the form field of key.
FieldClean(key, data) ==
  LET raw == IF key \in DOMAIN data THEN data[key] ELSE PyNone
  IN  CASE key = "name"   -> CleanCharField(raw, TRUE, PyStr(<<>>))
        [] key = "d_type" -> CleanChoiceField(raw, D_TYPE_CHOICES)
        [] key = "t_type" -> CleanChoiceField(raw, T_TYPE_CHOICES)
        [] OTHER          -> CleanCharField(raw, FALSE, PyNone)

\* The state of a running full_clean(): cleaned_data, the error lists and
\* whether an exception other than ValidationError has been raised.
\* _clean_fields(): a field that fails is left out of cleaned_data.
CleanFieldsOf(data) ==
  LET good == {k \in FormFields : FieldClean(k, data).ok}
  IN  [cd     |-> [k \in good |-> FieldClean(k, data).val],
       errors |-> [k \in FormFields \ good |-> <<FieldClean(k, data).err>>],
       raised |-> FALSE]

\* add_error(field, msg): append to the field's list, drop it from cleaned_data.
add_error(st, field, msg) ==
  [st EXCEPT
     !.errors = [k \in DOMAIN st.errors \cup {field} |->
                   IF k \notin DOMAIN st.errors THEN <<msg>>
                   ELSE IF k = field THEN Append(st.errors[k], msg)
                   ELSE st.errors[k]],
     !.cd = [k \in DOMAIN st.cd \ {field} |-> st.cd[k]]]

\* cleaned_data[key] of a key that cleaned_data does not hold: KeyError.
KeyError(st) == [st EXCEPT !.raised = TRUE]

\* Lines 43-45 as they would be if modified_user were not assigned.
StampUser_OnlyAdded(current_user, st) ==
  IF Truthy(current_user)
    THEN [st EXCEPT
            !.cd = [k \in DOMAIN st.cd \cup {"added_user"} |->
                      IF k = "added_user" THEN current_user ELSE st.cd[k]]]
    ELSE st

\* clean(), lines 43-45.
StampUser(current_user, st) ==
  IF Truthy(current_user)
    THEN [st EXCEPT
            !.cd = [k \in DOMAIN st.cd \cup {"added_user", "modified_user"} |->
                      IF k \in {"added_user", "modified_user"} THEN current_user
                      ELSE st.cd[k]]]
    ELSE st

\* `if not cleaned_data[field]: self.add_error(field, ...)`
RequireFilled(st, field) ==
  IF st.raised THEN st
  ELSE IF field \notin DOMAIN st.cd THEN KeyError(st)
  ELSE IF ~Truthy(st.cd[field]) THEN add_error(st, field, MsgFilled)
  ELSE st

\* Lines 47-52 as they would be if boolean_true_cond were not looked at.
CheckBoolean_OnlyFalse(st) ==
  IF st.raised THEN st
  ELSE IF "d_type" \notin DOMAIN st.cd THEN KeyError(st)
  ELSE IF st.cd["d_type"] = PyInt(Term_BOOLEAN)
    THEN RequireFilled(st, "boolean_false_cond")
  ELSE st

\* clean(), lines 47-52.
CheckBoolean(st) ==
  IF st.raised THEN st
  ELSE IF "d_type" \notin DOMAIN st.cd THEN KeyError(st)
  ELSE IF st.cd["d_type"] = PyInt(Term_BOOLEAN)
    THEN RequireFilled(RequireFilled(st, "boolean_false_cond"), "boolean_true_cond")
  ELSE st

\* Lines 54-56 as they would be if value were required of every term type.
CheckConstant_Always(st) ==
  IF st.raised THEN st
  ELSE IF "t_type" \notin DOMAIN st.cd THEN KeyError(st)
  ELSE RequireFilled(st, "value")

\* Lines 54-56 as they would be if value were never looked at.
CheckConstant_Skip(st) ==
  IF st.raised THEN st
  ELSE IF "t_type" \notin DOMAIN st.cd THEN KeyError(st)
  ELSE st

\* clean(), lines 54-56.
CheckConstant(st) ==
  IF st.raised THEN st
  ELSE IF "t_type" \notin DOMAIN st.cd THEN KeyError(st)
  ELSE IF st.cd["t_type"] = PyInt(Term_CONSTANT) THEN RequireFilled(st, "value")
  ELSE st

\* TermForm.clean
TermForm_clean(current_user, st) ==
  CheckConstant(CheckBoolean(StampUser(current_user, st)))

\* construct_instance(): each field of Meta.fields that cleaned_data holds is
\* assigned to the instance; added_user and modified_user are no such field.
construct_instance(cd, instance) ==
  [k \in DOMAIN instance |->
     IF k \in FormFields /\ k \in DOMAIN cd THEN cd[k] ELSE instance[k]]

\* validate_unique(): name, unless it already failed, against the other rows.
validate_unique(st, instance, rows) ==
  IF "name" \in DOMAIN st.cd /\ ~UniqueOk(rows, instance)
    THEN add_error(st, "name", MsgUnique)
    ELSE st

\* full_clean() of TermForm(data, current_user=current_user, instance=instance):
\* _clean_fields, _clean_form, _post_clean.  A KeyError leaves through
\* is_valid() with the form as it stands.  The model's own field validation
\* in _post_clean skips the fields that already failed and repeats the
\* checks of the form fields for the others, so it adds no error.
full_clean(data, current_user, instance, rows) ==
  LET st  == TermForm_clean(current_user, CleanFieldsOf(data))
      obj == construct_instance(st.cd, instance)
      fin == validate_unique(st, obj, rows)
  IN  IF st.raised
        THEN [state |-> "validated", data |-> data, current_user |-> current_user,
              instance |-> instance, cleaned_data |-> st.cd, errors |-> st.errors,
              outcome |-> "KeyError"]
        ELSE [state |-> "validated", data |-> data, current_user |-> current_user,
              instance |-> obj, cleaned_data |-> fin.cd, errors |-> fin.errors,
              outcome |-> IF DOMAIN fin.errors = {} THEN "accepted" ELSE "rejected"]

\* No form is in use.
NoForm == [state |-> "none"]

(* ------------------------------ inputs -------------------------------- *)

Users == {PyUser("u1"), PyUser("u2")}

\* A string longer than max_length.
LongStr == [i \in 1..(max_length + 1) |-> "a"]

\* The submitted data as a dict: only the keys that are not Absent.
MkData(n, d, t, v, f, c) ==
  LET all == [name |-> n, d_type |-> d, t_type |-> t, value |-> v,
              boolean_false_cond |-> f, boolean_true_cond |-> c]
  IN  [k \in {x \in FormFields : all[x].t # "absent"} |-> all[k]]

NameInputs == {Absent, PyStr(<<"n">>), PyStr(<<"m">>)}

\* Every choice, a number that is no choice, and no value at all.
DTypeInputs == {Absent} \cup {PyInt(n) : n \in D_TYPE_CHOICES \cup {6}}

TTypeInputs == {Absent} \cup {PyInt(n) : n \in T_TYPE_CHOICES \cup {5}}

TextInputs == {Absent, PyNone, PyStr(<<>>), PyStr(<<" ">>), PyStr(<<"a">>), PyStr(LongStr)}

\* Term.objects.create(added_user=u, modified_user=u, name=...), as the tests
\* of the model call it.
MinimalInputs ==
  [name : {PyStr(<<"n">>)}, d_type : {PyInt(Term_NONE)}, t_type : {PyInt(Term_DEFINITION)},
   value : {PyNone}, boolean_false_cond : {PyNone}, boolean_true_cond : {PyNone},
   user : {PyUser("u1")}]

CondInputs == {PyNone} \cup {PyStr(s) : s \in StrsUpTo({"a", "ß"}, MaxLen)}

\* What Term.objects.create and attribute assignment are given when the
\* stored rows are studied.
ModelInputs ==
  [name : {PyStr(<<"n">>)}, d_type : {PyInt(Term_NONE), PyInt(Term_BOOLEAN)},
   t_type : {PyInt(Term_CONSTANT), PyInt(Term_DEFINITION)},
   value : {PyNone, PyStr(<<>>), PyStr(<<"v">>)},
   boolean_false_cond : CondInputs, boolean_true_cond : CondInputs,
   user : Users]

\* What a form is given when the stored rows are studied.
StoreFormInputs ==
  {MkData(n, d, t, v, f, c) :
     n \in {PyStr(<<"n">>)}, d \in {PyInt(Term_NONE), PyInt(Term_BOOLEAN)},
     t \in {PyInt(Term_CONSTANT), PyInt(Term_DEFINITION)},
     v \in {Absent, PyStr(<<"v">>)}, f \in {Absent, PyStr(<<"a">>)},
     c \in {Absent, PyStr(<<"ß">>)}}

(* ------------------------------ actions ------------------------------- *)

Init == terms = <<>> /\ form = NoForm

\* Term.objects.create(**kw)
ModelCreate(kw) ==
  /\ form.state = "none"
  /\ terms' = SaveInstance(terms, TermInit(kw), "model", PyNone)
  /\ UNCHANGED form

\* t = Term.objects.get(pk=id); t.<field> = ...; t.save()
TermUpdate(id, kw) ==
  /\ form.state = "none"
  /\ id \in 1..Len(terms)
  /\ terms' = SaveInstance(terms, TermAssign(terms[id], kw), "model", PyNone)
  /\ UNCHANGED form

\* Term.objects.get(pk=id).save()
TermSave(id) ==
  /\ form.state = "none"
  /\ id \in 1..Len(terms)
  /\ terms' = SaveInstance(terms, terms[id], "model", PyNone)
  /\ UNCHANGED form

\* form = TermForm(data, current_user=user[, instance=...]); form.is_valid()
FormValidate(data, user, id) ==
  /\ form.state = "none"
  /\ id \in 0..Len(terms)
  /\ form' = full_clean(data, user, IF id = 0 THEN NewTerm ELSE terms[id], terms)
  /\ UNCHANGED terms

\* form.save(): ValueError if the form has errors, else instance.save().
FormSave ==
  /\ form.state = "validated"
  /\ form.outcome # "KeyError"
  /\ terms' = IF form.outcome = "rejected" THEN terms
              ELSE SaveInstance(terms, form.instance, "form", form.current_user)
  /\ form' = NoForm

\* The form is dropped: the request ends, or the KeyError has left is_valid().
FormDiscard ==
  /\ form.state = "validated"
  /\ form' = NoForm
  /\ UNCHANGED terms

\* No form is being processed: the next call may start.
Idle == form.state = "none"

\* The stored rows under the model's own calls and under forms.
Next ==
  \/ Idle /\ \E kw \in ModelInputs : ModelCreate(kw)
  \/ Idle /\ \E id \in 1..Len(terms), kw \in ModelInputs : TermUpdate(id, kw)
  \/ Idle /\ \E id \in 1..Len(terms) : TermSave(id)
  \/ Idle /\ \E data \in StoreFormInputs, user \in {PyNone} \cup Users,
                id \in 0..Len(terms) :
               FormValidate(data, user, id)
  \/ FormSave
  \/ FormDiscard

Spec == Init /\ [][Next]_vars

\* Validation of every kind of input, over an empty table and over one row.
NextForm ==
  \/ Idle /\ \E kw \in MinimalInputs : ModelCreate(kw)
  \/ Idle /\ \E n \in NameInputs, d \in DTypeInputs, t \in TTypeInputs,
                v \in TextInputs, f \in TextInputs, c \in TextInputs,
                user \in {PyNone} \cup Users, id \in 0..Len(terms) :
               FormValidate(MkData(n, d, t, v, f, c), user, id)
  \/ FormDiscard

SpecForm == Init /\ [][NextForm]_vars

(* ------------------------------ claims -------------------------------- *)

\* The input holds no value for key: the key is absent, None or ''.
IsEmptyInput(data, key) ==
  \/ key \notin DOMAIN data
  \/ data[key].t = "none"
  \/ data[key].t = "str" /\ data[key].s = <<>>

\* The input holds the number n for key.
IsChoice(data, key, n) == key \in DOMAIN data /\ data[key].t = "int" /\ data[key].n = n

\* The fields whose error list holds the message of clean().
FilledErrors(errors) ==
  {k \in DOMAIN errors : \E i \in 1..Len(errors[k]) : errors[k][i] = MsgFilled}

Validated == form.state = "validated"

\* C1: a Boolean input with an empty condition is rejected, and the error
\* list of each empty condition is exactly the message of clean().
C1_Claim ==
  Validated /\ IsChoice(form.data, "d_type", Term_BOOLEAN) =>
    \A k \in {"boolean_false_cond", "boolean_true_cond"} :
      IsEmptyInput(form.data, k) =>
        /\ form.outcome = "rejected"
        /\ k \in DOMAIN form.errors
        /\ form.errors[k] = <<MsgFilled>>

\* C2: a Constant input with an empty value is rejected with the message of
\* clean() on value, whatever the other fields are.
C2_Claim ==
  Validated /\ IsChoice(form.data, "t_type", Term_CONSTANT)
            /\ IsEmptyInput(form.data, "value") =>
    form.outcome = "rejected" /\ "value" \in FilledErrors(form.errors)

\* C3: the fields that carry the message of clean() are exactly the violated
\* ones, for every input.
C3_Claim ==
  Validated =>
    FilledErrors(form.errors) =
      {k \in {"boolean_false_cond", "boolean_true_cond"} :
         IsChoice(form.data, "d_type", Term_BOOLEAN) /\ IsEmptyInput(form.data, k)}
      \cup {k \in {"value"} :
              IsChoice(form.data, "t_type", Term_CONSTANT) /\ IsEmptyInput(form.data, k)}

\* C4: every filled condition of a stored row is its own upper case, a
\* condition that was None or '' when save() was entered is stored as it
\* was, and saving a stored row again leaves it as it is.
C4_Uppercase ==
  \A i \in 1..Len(terms) :
    LET r == terms[i]
    IN  /\ Truthy(r.boolean_false_cond) =>
             r.boolean_false_cond.s = Upper(r.boolean_false_cond.s)
        /\ Truthy(r.boolean_true_cond) =>
             r.boolean_true_cond.s = Upper(r.boolean_true_cond.s)
        /\ r.raw_false = Kind(r.boolean_false_cond)
        /\ r.raw_true = Kind(r.boolean_true_cond)
        /\ SaveInstance(terms, r, r.via, r.by) = terms

\* A row stored from 'ß' in one condition and from None in the other.
C4_Witness ==
  \E i \in 1..Len(terms) :
    /\ terms[i].boolean_true_cond = PyStr(<<"S", "S">>)
    /\ terms[i].boolean_false_cond = PyNone

\* C5: with an acting user the cleaned data holds added_user and
\* modified_user equal to it; without one, validation adds neither.
C5_Stamp ==
  Validated =>
    /\ Truthy(form.current_user) =>
         /\ {"added_user", "modified_user"} \subseteq DOMAIN form.cleaned_data
         /\ form.cleaned_data["added_user"] = form.current_user
         /\ form.cleaned_data["modified_user"] = form.current_user
    /\ ~Truthy(form.current_user) =>
         {"added_user", "modified_user"} \cap DOMAIN form.cleaned_data = {}

\* An accepted input validated for the acting user u2.
C5_Witness ==
  /\ Validated
  /\ form.outcome = "accepted"
  /\ form.current_user = PyUser("u2")
  /\ form.cleaned_data["modified_user"] = PyUser("u2")

\* The two rules of clean() on the input as given: a field counts as filled
\* unless it is absent, None or ''.
RulesAsGiven(data) ==
  /\ IsChoice(data, "d_type", Term_BOOLEAN) =>
       ~IsEmptyInput(data, "boolean_false_cond") /\ ~IsEmptyInput(data, "boolean_true_cond")
  /\ IsChoice(data, "t_type", Term_CONSTANT) => ~IsEmptyInput(data, "value")

\* C6: an input with a name, a valid d_type, a valid t_type and both rules
\* satisfied is accepted.
C6_Claim ==
  Validated /\ ~IsEmptyInput(form.data, "name")
            /\ (\E n \in D_TYPE_CHOICES : IsChoice(form.data, "d_type", n))
            /\ (\E n \in T_TYPE_CHOICES : IsChoice(form.data, "t_type", n))
            /\ RulesAsGiven(form.data) =>
    form.outcome = "accepted"

\* The field holds text that is not blank once stripped.
IsFilledInput(data, key) ==
  key \in DOMAIN data /\ data[key].t = "str" /\ Strip(data[key].s) # <<>>

\* The field, if it holds text, holds at most max_length characters of it.
FitsInput(data, key) ==
  key \in DOMAIN data /\ data[key].t = "str" => Len(Strip(data[key].s)) <= max_length

\* No other stored row has the name of the input.
NameIsFree(data, id) ==
  \A i \in 1..Len(terms) : i # id => terms[i].name.s # Strip(data["name"].s)

\* C6 as amended: the input is accepted if moreover each text is at most 140
\* characters, blank text counts as empty, and no other row has the name.
C6_Amended ==
  Validated /\ IsFilledInput(form.data, "name")
            /\ (\A k \in FormFields \ {"d_type", "t_type"} : FitsInput(form.data, k))
            /\ NameIsFree(form.data, form.instance.id)
            /\ (\E n \in D_TYPE_CHOICES : IsChoice(form.data, "d_type", n))
            /\ (\E n \in T_TYPE_CHOICES : IsChoice(form.data, "t_type", n))
            /\ (IsChoice(form.data, "d_type", Term_BOOLEAN) =>
                  /\ IsFilledInput(form.data, "boolean_false_cond")
                  /\ IsFilledInput(form.data, "boolean_true_cond"))
            /\ (IsChoice(form.data, "t_type", Term_CONSTANT) =>
                  IsFilledInput(form.data, "value")) =>
    form.outcome = "accepted"

\* A Boolean Constant with every field filled, accepted without acting user.
C6_Witness ==
  /\ Validated
  /\ form.outcome = "accepted"
  /\ IsChoice(form.data, "d_type", Term_BOOLEAN)
  /\ IsChoice(form.data, "t_type", Term_CONSTANT)
  /\ form.current_user = PyNone

BothConditionsFilled(r) ==
  Truthy(r.boolean_false_cond) /\ Truthy(r.boolean_true_cond)

\* C7: every stored Boolean row has both conditions filled.
C7_Claim ==
  \A i \in 1..Len(terms) :
    terms[i].d_type = PyInt(Term_BOOLEAN) => BothConditionsFilled(terms[i])

\* C7 as amended: every Boolean row as stored from an accepted form has both
\* conditions filled.
C7_Amended ==
  \A i \in 1..Len(terms) :
    terms[i].via = "form" /\ terms[i].d_type = PyInt(Term_BOOLEAN) =>
      BothConditionsFilled(terms[i])

\* A Boolean row stored from a form.
C7_Witness ==
  \E i \in 1..Len(terms) :
    terms[i].via = "form" /\ terms[i].d_type = PyInt(Term_BOOLEAN)

\* C8: every stored Constant row has a filled value.
C8_Claim ==
  \A i \in 1..Len(terms) :
    terms[i].t_type = PyInt(Term_CONSTANT) => Truthy(terms[i].value)

\* C8 as amended: every Constant row as stored from an accepted form has a
\* filled value.
C8_Amended ==
  \A i \in 1..Len(terms) :
    terms[i].via = "form" /\ terms[i].t_type = PyInt(Term_CONSTANT) =>
      Truthy(terms[i].value)

\* A Constant row stored from a form.
C8_Witness ==
  \E i \in 1..Len(terms) :
    terms[i].via = "form" /\ terms[i].t_type = PyInt(Term_CONSTANT)

\* C9: a row stored from a form that had an acting user carries that user as
\* added_user and modified_user.
C9_Claim ==
  \A i \in 1..Len(terms) :
    terms[i].via = "form" /\ Truthy(terms[i].by) =>
      terms[i].added_user = terms[i].by /\ terms[i].modified_user = terms[i].by

\* C10: validation ends in acceptance or in a rejection, never in an
\* unhandled error.
C10_Claim == Validated => form.outcome \in {"accepted", "rejected"}

====
